---------------------------- MODULE Spec2Model ----------------------------
(***************************************************************************)
(* Local response normalization (chainer/functions/                        *)
(* local_response_normalization.py).                                       *)
(*                                                                         *)
(* Two state machines share this module:                                   *)
(*   SpecSum : the windowed-sum engine.  The host slice loop of            *)
(*             forward_cpu/backward_cpu runs one iteration per step, and   *)
(*             the lanes of the lrn_conv_sum kernel run one iteration of   *)
(*             their j-loop per step, in any interleaving.                 *)
(*   SpecOp  : one LocalResponseNormalization instance with its cached     *)
(*             attributes and the four methods forward_cpu, forward_gpu,   *)
(*             backward_cpu, backward_gpu.                                 *)
(*                                                                         *)
(* A tensor is a record [shape |-> <<batch, N, rdim>>, data |-> f] where f *)
(* maps the C-order flat index (b * N + c) * rdim + s to the element.  The *)
(* trailing axes of the 4-D array are flattened into rdim, exactly as the  *)
(* kernel does (line 7); the host slices only touch axis 1.                *)
(***************************************************************************)
EXTENDS Integers, Sequences, FiniteSets, TLC

\* ------------------------------------------------------------- bounds
MaxBatch == 2      \* x.shape[0] ranges over 1..MaxBatch
MaxN     == 4      \* x.shape[1] (channels) ranges over 1..MaxN
MaxRdim  == 2      \* flattened spatial size ranges over 1..MaxRdim
MaxSize  == 8      \* batch * N * rdim <= MaxSize
MaxLanes == 4      \* batch * rdim (lanes of one launch) <= MaxLanes
MaxWidth == 5      \* window width n ranges over 1..MaxWidth
OpMaxN   == 2      \* operator inputs: channel count ranges over 1..OpMaxN

\* ------------------------------------------------------------- numbers
\* The arrays hold floats.  The model computes in exact rational arithmetic:
\* a number is <<p, q>> with q > 0 and gcd(p, q) = 1.
RECURSIVE GCD(_, _)
GCD(a, b) == IF b = 0 THEN a ELSE GCD(b, a % b)
Abs(a) == IF a < 0 THEN -a ELSE a
\* q = 0 stands for the float results of a division by zero: <<1, 0>> and
\* <<-1, 0>> are +inf and -inf, <<0, 0>> is nan.
Norm(p, q) ==
    LET g == GCD(Abs(p), Abs(q))
        s == IF q < 0 THEN -1 ELSE 1
    IN  IF g = 0 THEN <<0, 0>> ELSE <<(s * p) \div g, (s * q) \div g>>
R(z)       == <<z, 1>>
\* (common factors are divided out before multiplying, to keep the
\* intermediate products small)
RAdd(a, b) ==
    IF a[2] = 1 /\ b[2] = 1 THEN <<a[1] + b[1], 1>>
    ELSE LET g == GCD(a[2], b[2])
         IN  IF g = 0 THEN Norm(a[1] * b[2] + b[1] * a[2], a[2] * b[2])
             ELSE Norm(a[1] * (b[2] \div g) + b[1] * (a[2] \div g),
                       (a[2] \div g) * b[2])
RSub(a, b) == RAdd(a, <<-b[1], b[2]>>)
RMul(a, b) ==
    LET g1 == GCD(Abs(a[1]), Abs(b[2]))
        g2 == GCD(Abs(b[1]), Abs(a[2]))
    IN  IF g1 = 0 \/ g2 = 0 THEN Norm(a[1] * b[1], a[2] * b[2])
        ELSE Norm((a[1] \div g1) * (b[1] \div g2), (a[2] \div g2) * (b[2] \div g1))
RDiv(a, b) == RMul(a, <<b[2], b[1]>>)
RECURSIVE RPow(_, _)
RPow(a, e) == IF e = 0 THEN R(1) ELSE RMul(a, RPow(a, e - 1))
\* a ** -e for a natural exponent e
RPowNeg(a, e) == RDiv(R(1), RPow(a, e))

\* ------------------------------------------------------------- tensors
Batch(t) == t.shape[1]
Chan(t)  == t.shape[2]
Rdim(t)  == t.shape[3]
Size(t)  == t.shape[1] * t.shape[2] * t.shape[3]
Idx(t)   == 0 .. (Size(t) - 1)

\* coordinates of a flat index in a (batch, N, rdim) C-order array
BOf(sh, i) == i \div (sh[2] * sh[3])
COf(sh, i) == (i \div sh[3]) % sh[2]
SOf(sh, i) == i % sh[3]
Flat(sh, b, c, s) == (b * sh[2] + c) * sh[3] + s

Shapes ==
    { sh \in (1..MaxBatch) \X (1..MaxN) \X (1..MaxRdim) :
        sh[1] * sh[2] * sh[3] <= MaxSize /\ sh[1] * sh[3] <= MaxLanes }

\* (f @@ << >> is f, held as an explicit table)
Tensor(sh, f) == [shape |-> sh, data |-> f @@ << >>]

\* Inputs of the engine.  Both algorithms only add and subtract elements, so
\* they are linear in the input: the unit tensors (a single 1) of a shape span
\* every input of that shape.  A dense ramp is added to exercise all
\* elements at once.
UnitTensor(sh, p) ==
    Tensor(sh, [i \in 0 .. (sh[1] * sh[2] * sh[3] - 1) |-> IF i = p THEN R(1) ELSE R(0)])
RampTensor(sh) ==
    Tensor(sh, [i \in 0 .. (sh[1] * sh[2] * sh[3] - 1) |-> R(i + 1)])
SumInputs ==
    UNION { { UnitTensor(sh, p) : p \in 0 .. (sh[1] * sh[2] * sh[3] - 1) }
              \cup { RampTensor(sh) } : sh \in Shapes }

\* contents an uninitialised or out-of-bounds float may turn out to hold
Garbage == {0, -1}


VARIABLES
    x,          \* engine: the array the windowed sum is taken of (x2 / summand)
    n,          \* engine: the window width (self.n, n_)
    sum_part,   \* host: the running total of the slice loop
    hi,         \* host: the next value of the loop variable i
    y,          \* device: the output buffer of lrn_conv_sum (data only)
    lanes,      \* device: lane i |-> [j, sum_part], the lane's private state
    written,    \* device: flat index |-> the lanes that stored to it, in order
    self,       \* operator: the instance: n, k, alpha, beta and the cached
                \*   attributes y, scale, unit_scale (<< >> while not set)
    result,     \* operator: the last method call, its arguments and outcome
    lastX,      \* operator: << >>, or <<x>> for the input of the last forward
    nbwd        \* operator: gradients returned since the last forward (0, 1, 2 = more)

sumVars == <<x, n, sum_part, hi, y, lanes, written>>
opVars  == <<self, result, lastX, nbwd>>
vars    == <<sumVars, opVars>>

\* ------------------------------------------------------------- host engine
\* half_n = self.n / 2   (Python 2 integer division)
HalfN(n_) == n_ \div 2

\* AddShiftedDown with a fault, to show what the claims rest on:
\* the shifted source wraps around the channel axis
\* instead of being cut off (a roll where the code takes a slice)
AddShiftedDown_Wrap(sp, x2, i) ==
    LET sh == sp.shape
    IN  Tensor(sh, [q \in Idx(sp) |->
            RAdd(sp.data[q],
                 x2.data[Flat(sh, BOf(sh, q), (COf(sh, q) - i) % sh[2], SOf(sh, q))])])

\* sum_part[:, i:] += x2[:, :-i]
\* The target slice holds the channels c >= i, the source slice the channels
\* c < N - i; both have max(N - i, 0) channels and are paired in order, so
\* channel c of the target receives channel c - i of the source.
AddShiftedDown(sp, x2, i) ==
    LET sh == sp.shape
    IN  Tensor(sh, [q \in Idx(sp) |->
            IF COf(sh, q) >= i
            THEN RAdd(sp.data[q], x2.data[q - i * sh[3]])
            ELSE sp.data[q]])

\* sum_part[:, :-i] += x2[:, i:]
AddShiftedUp(sp, x2, i) ==
    LET sh == sp.shape
    IN  Tensor(sh, [q \in Idx(sp) |->
            IF COf(sh, q) < sh[2] - i
            THEN RAdd(sp.data[q], x2.data[q + i * sh[3]])
            ELSE sp.data[q]])

\* one iteration of  for i in xrange(1, half_n + 1)
HostIter(sp, x2, i) == AddShiftedUp(AddShiftedDown(sp, x2, i), x2, i)

RECURSIVE HostLoop(_, _, _, _)
HostLoop(sp, x2, i, half_n) ==
    IF i > half_n THEN sp ELSE HostLoop(HostIter(sp, x2, i), x2, i + 1, half_n)

\* sum_part = x2.copy(); the loop; the value of sum_part after it
HostConvSum(x2, n_) == HostLoop(x2, x2, 1, HalfN(n_))

\* ------------------------------------------------------------- device engine
\* rdim = x.size / (x.shape[0] * x.shape[1])
RdimOf(t) == Size(t) \div (Batch(t) * Chan(t))

\* range=slice(0, x.shape[0] * rdim, 1)
LaneRange(t) == 0 .. (Batch(t) * RdimOf(t) - 1)

\* KernelOffset with a fault, to show what the claims rest on:
\* the batch term is dropped, so the lanes of
\* different batch elements share a column
KernelOffset_NoBatch(i, rdim, N) == i % rdim

\* int offset = i / rdim * N * rdim + i % rdim;
KernelOffset(i, rdim, N) == ((i \div rdim) * N * rdim) + (i % rdim)

\* LaneTripCount with a fault, to show what the claims rest on:
\* the loop runs to N + n_ instead of N + half_n
LaneTripCount_Full(N, n_) == N + n_

\* for (int j = 0; j < N + half_n; ++j)
LaneTripCount(N, n_) == N + (n_ \div 2)

\* a load through a float pointer: outside the buffer it yields whatever g is
Load(buf, q, g) == IF q \in DOMAIN buf THEN buf[q] ELSE g

\* LaneBody with a fault, to show what the claims rest on:
\* the trailing element leaves the window one iteration
\* late (j > n_ where the kernel tests j >= n_)
LaneBody_LateSubtract(yd, xd, rdim, N, n_, i, j, sp, g) ==
    LET half_n == n_ \div 2
        offset == KernelOffset(i, rdim, N)
        ra == offset + j * rdim
        rs == offset + (j - n_) * rdim
        w  == offset + (j - half_n) * rdim
        s1 == IF j < N THEN RAdd(sp, Load(xd, ra, g)) ELSE sp
        s2 == IF j > n_ THEN RSub(s1, Load(xd, rs, g)) ELSE s1
    IN  [sum_part |-> s2,
         y |-> IF j >= half_n /\ w \in DOMAIN yd THEN [yd EXCEPT ![w] = s2] ELSE yd,
         reads  |-> (IF j < N THEN {ra} ELSE {}) \cup (IF j > n_ THEN {rs} ELSE {}),
         writes |-> IF j >= half_n THEN {w} ELSE {}]

\* One iteration of the j-loop of lane i: the new sum_part and output buffer,
\* and the flat indices the iteration loads from x and stores to y.
LaneBody(yd, xd, rdim, N, n_, i, j, sp, g) ==
    LET half_n == n_ \div 2
        offset == KernelOffset(i, rdim, N)
        ra == offset + j * rdim            \* xi[j * rdim]
        rs == offset + (j - n_) * rdim     \* xi[(j - n_) * rdim]
        w  == offset + (j - half_n) * rdim \* yi[(j - half_n) * rdim]
        s1 == IF j < N THEN RAdd(sp, Load(xd, ra, g)) ELSE sp
        s2 == IF j >= n_ THEN RSub(s1, Load(xd, rs, g)) ELSE s1
    IN  [sum_part |-> s2,
         y |-> IF j >= half_n /\ w \in DOMAIN yd THEN [yd EXCEPT ![w] = s2] ELSE yd,
         reads  |-> (IF j < N THEN {ra} ELSE {}) \cup (IF j >= n_ THEN {rs} ELSE {}),
         writes |-> IF j >= half_n THEN {w} ELSE {}]

\* a whole lane, j = 0 .. trip count - 1, from float sum_part = 0
RECURSIVE LaneRun(_, _, _, _, _, _, _, _)
LaneRun(yd, xd, rdim, N, n_, i, j, sp) ==
    IF j >= LaneTripCount(N, n_) THEN yd
    ELSE LET r == LaneBody(yd, xd, rdim, N, n_, i, j, sp, R(0))
         IN  LaneRun(r.y, xd, rdim, N, n_, i, j + 1, r.sum_part)

\* the launch with the lanes run one after the other, in index order
RECURSIVE LanesInOrder(_, _, _, _)
LanesInOrder(yd, xt, n_, i) ==
    IF i \notin LaneRange(xt) THEN yd
    ELSE LanesInOrder(LaneRun(yd, xt.data, RdimOf(xt), Chan(xt), n_, i, 0, R(0)),
                      xt, n_, i + 1)

\* _cu_conv_sum(y, x, n): the output buffer after the launch
CuConvSum(yd, xt, n_) == LanesInOrder(yd, xt, n_, 0)

\* ------------------------------------------------------------- SpecSum
InitSum ==
    /\ x \in SumInputs
    /\ n \in 1 .. MaxWidth
    /\ sum_part = x
    /\ hi = 1
    /\ \E g \in Garbage : y = [q \in Idx(x) |-> R(g)]
    /\ lanes = [i \in LaneRange(x) |-> [j |-> 0, sum_part |-> R(0)]]
    /\ written = [q \in Idx(x) |-> << >>]
    /\ self = << >> /\ result = << >> /\ lastX = << >>
    /\ nbwd = 0

\* forward_cpu lines 44-46 / backward_cpu lines 56-58: one loop iteration
HostStep ==
    /\ hi <= HalfN(n)
    /\ sum_part' = HostIter(sum_part, x, hi)
    /\ hi' = hi + 1
    /\ UNCHANGED <<x, n, y, lanes, written>>
    /\ UNCHANGED opVars

\* lrn_conv_sum lines 17-27: one iteration of the j-loop of lane i
LaneStep(i) ==
    /\ hi > HalfN(n)       \* the host reduction has returned; the launch follows
    /\ lanes[i].j < LaneTripCount(Chan(x), n)
    /\ \E g \in Garbage :
         LET r == LaneBody(y, x.data, RdimOf(x), Chan(x), n, i, lanes[i].j,
                           lanes[i].sum_part, R(g))
         IN  /\ y' = r.y
             /\ lanes' = [lanes EXCEPT ![i] = [j |-> lanes[i].j + 1,
                                               sum_part |-> r.sum_part]]
             /\ written' = [q \in DOMAIN written |->
                              IF q \in r.writes THEN Append(written[q], i)
                              ELSE written[q]]
    /\ UNCHANGED <<x, n, sum_part, hi>>
    /\ UNCHANGED opVars

NextSum == HostStep \/ \E i \in DOMAIN lanes : LaneStep(i)

SpecSum == InitSum /\ [][NextSum]_vars

HostDone == hi > HalfN(n)
LaneDone(i) == lanes[i].j >= LaneTripCount(Chan(x), n)
KernelDone == \A i \in DOMAIN lanes : LaneDone(i)

\* the windowed sum of the contract: out[c] = sum of v[j] for
\* j = max(0, c - half) .. min(N - 1, c + half), per (batch, spatial) column
RECURSIVE SumChannels(_, _, _, _, _)
SumChannels(t, b, s, lo, hi_) ==
    IF lo > hi_ THEN R(0)
    ELSE RAdd(t.data[Flat(t.shape, b, lo, s)], SumChannels(t, b, s, lo + 1, hi_))
Max(a, b) == IF a > b THEN a ELSE b
Min(a, b) == IF a < b THEN a ELSE b
WindowSum(t, n_) ==
    LET sh == t.shape
        half == n_ \div 2
    IN  Tensor(sh, [q \in Idx(t) |->
            SumChannels(t, BOf(sh, q), SOf(sh, q),
                        Max(0, COf(sh, q) - half),
                        Min(sh[2] - 1, COf(sh, q) + half))])


\* ------------------------------------------------------------- operator
\* Inputs of the operator: one image of 1..OpMaxN channels, and a batch of
\* two one-channel images (the memory layout of larger batches and spatial
\* sizes is the subject of SpecSum).  forward is given a rising or a falling
\* pattern; backward is given x rising and gy falling.
OpShapes == { <<1, c, 1>> : c \in 1..OpMaxN } \cup { <<2, 1, 1>> }
FallTensor(sh) ==
    Tensor(sh, [i \in 0 .. (sh[1] * sh[2] * sh[3] - 1) |-> R(2 - i)])
OpInputs == { RampTensor(sh) : sh \in OpShapes } \cup { FallTensor(sh) : sh \in OpShapes }
BackwardArgs == { <<RampTensor(s1), FallTensor(s2)>> : s1 \in OpShapes, s2 \in OpShapes }

\* __init__(self, n, k, alpha, beta).  alpha and beta are floats in the
\* program; the model draws whole numbers and computes x ** -beta exactly.
ParamChoices ==
    { [n |-> 3, k |-> 2, alpha |-> 1, beta |-> 1],
      [n |-> 2, k |-> 1, alpha |-> 2, beta |-> 1],
      [n |-> 1, k |-> 1, alpha |-> 1, beta |-> 2] }

\* NewInstance with a fault, to show what the claims rest on:
\* the constructor allocates the cached arrays
NewInstance_Prealloc(p) ==
    [n |-> p.n, k |-> p.k, alpha |-> p.alpha, beta |-> p.beta,
     y |-> <<RampTensor(<<1, 1, 1>>)>>, scale |-> <<RampTensor(<<1, 1, 1>>)>>,
     unit_scale |-> <<RampTensor(<<1, 1, 1>>)>>, on |-> "cpu"]

\* The instance after __init__: the four parameters, and no attribute y,
\* scale or unit_scale.  `on` is the type of the arrays held in y and scale:
\* "cpu" for numpy.ndarray, "gpu" for GPUArray.
NewInstance(p) ==
    [n |-> p.n, k |-> p.k, alpha |-> p.alpha, beta |-> p.beta,
     y |-> << >>, scale |-> << >>, unit_scale |-> << >>, on |-> "none"]

\* k + alpha * t, for scalars k and alpha
ScalePlus(k, alpha, t) ==
    Tensor(t.shape, [q \in Idx(t) |-> RAdd(R(k), RMul(R(alpha), t.data[q]))])
\* t ** -beta, elementwise
ArrayPowNeg(t, beta) == Tensor(t.shape, [q \in Idx(t) |-> RPowNeg(t.data[q], beta)])
\* c * t, for a scalar c
ScalarTimes(c, t) == Tensor(t.shape, [q \in Idx(t) |-> RMul(R(c), t.data[q])])

\* numpy broadcasting of two (batch, N, rdim) arrays
Compatible(s1, s2) ==
    \A d \in 1..3 : s1[d] = s2[d] \/ s1[d] = 1 \/ s2[d] = 1
BShape(s1, s2) == <<Max(s1[1], s2[1]), Max(s1[2], s2[2]), Max(s1[3], s2[3])>>
At(t, b, c, s) ==
    t.data[Flat(t.shape, IF t.shape[1] = 1 THEN 0 ELSE b,
                         IF t.shape[2] = 1 THEN 0 ELSE c,
                         IF t.shape[3] = 1 THEN 0 ELSE s)]
BroadcastTo(a, sh) ==
    Tensor(sh, [q \in 0 .. (sh[1] * sh[2] * sh[3] - 1) |->
                  At(a, BOf(sh, q), COf(sh, q), SOf(sh, q))])
\* a * b, a / b, a - b of numpy arrays whose shapes broadcast
NpMul(a, b) ==
    LET sh == BShape(a.shape, b.shape)
        aa == BroadcastTo(a, sh)
        bb == BroadcastTo(b, sh)
    IN  Tensor(sh, [q \in Idx(aa) |-> RMul(aa.data[q], bb.data[q])])
NpDiv(a, b) ==
    LET sh == BShape(a.shape, b.shape)
        aa == BroadcastTo(a, sh)
        bb == BroadcastTo(b, sh)
    IN  Tensor(sh, [q \in Idx(aa) |-> RDiv(aa.data[q], bb.data[q])])
NpSub(a, b) ==
    LET sh == BShape(a.shape, b.shape)
        aa == BroadcastTo(a, sh)
        bb == BroadcastTo(b, sh)
    IN  Tensor(sh, [q \in Idx(aa) |-> RSub(aa.data[q], bb.data[q])])

\* ForwardCpuState with a fault, to show what the claims rest on:
\* scale is unit_scale ** beta (the sign of the
\* exponent is lost)
ForwardCpuState_PosPower(slf, xin) ==
    LET x2         == NpMul(xin, xin)
        sp         == HostConvSum(x2, slf.n)
        unit_scale == ScalePlus(slf.k, slf.alpha, sp)
        scale      == Tensor(sp.shape, [q \in Idx(sp) |-> RPow(unit_scale.data[q], slf.beta)])
    IN  [slf EXCEPT !.unit_scale = <<unit_scale>>,
                    !.scale      = <<scale>>,
                    !.y          = <<NpMul(xin, scale)>>,
                    !.on         = "cpu"]

\* forward_cpu(self, x): the instance after the call
ForwardCpuState(slf, xin) ==
    LET x2         == NpMul(xin, xin)
        sp         == HostConvSum(x2, slf.n)
        unit_scale == ScalePlus(slf.k, slf.alpha, sp)
        scale      == ArrayPowNeg(unit_scale, slf.beta)
    IN  [slf EXCEPT !.unit_scale = <<unit_scale>>,
                    !.scale      = <<scale>>,
                    !.y          = <<NpMul(xin, scale)>>,
                    !.on         = "cpu"]

\* cuda.empty_like(t): a buffer of unspecified contents.  The kernel stores
\* every element of it before any is loaded, in every interleaving of the
\* lanes (C8 and C10, established in SpecSum from garbage contents), so the
\* operator model starts it from zeros.
EmptyLike(t) == [q \in Idx(t) |-> R(0)]

\* ForwardGpuState with a fault, to show what the claims rest on:
\* a scale buffer that is already allocated is
\* kept as it is instead of being computed again
ForwardGpuState_KeepScale(slf, xin) ==
    LET sq     == Tensor(xin.shape, [q \in Idx(xin) |-> RMul(xin.data[q], xin.data[q])])
        summed == CuConvSum(EmptyLike(sq), sq, slf.n)
        scale  == IF slf.scale # << >> /\ slf.scale[1].shape = xin.shape
                  THEN slf.scale[1].data
                  ELSE [q \in Idx(sq) |-> RAdd(R(slf.k), RMul(R(slf.alpha), summed[q]))]
        yy     == [q \in Idx(sq) |-> RMul(xin.data[q], RPowNeg(scale[q], slf.beta))]
    IN  [slf EXCEPT !.scale = <<Tensor(xin.shape, scale)>>,
                    !.y     = <<Tensor(xin.shape, yy)>>,
                    !.on    = "gpu"]

\* forward_gpu(self, x): the instance after the call
ForwardGpuState(slf, xin) ==
    LET sq     == Tensor(xin.shape, [q \in Idx(xin) |-> RMul(xin.data[q], xin.data[q])])
        summed == CuConvSum(EmptyLike(sq), sq, slf.n)
        \* lrn_fwd: scale[i] = k + alpha * scale[i]
        scale  == [q \in Idx(sq) |-> RAdd(R(slf.k), RMul(R(slf.alpha), summed[q]))]
        \*          y[i] = x[i] * __powf(scale[i], -beta)
        yy     == [q \in Idx(sq) |-> RMul(xin.data[q], RPowNeg(scale[q], slf.beta))]
    IN  [slf EXCEPT !.scale = <<Tensor(xin.shape, scale)>>,
                    !.y     = <<Tensor(xin.shape, yy)>>,
                    !.on    = "gpu"]

\* BackwardSelf with a fault, to show what the claims rest on:
\* backward deletes the cached attributes
BackwardSelf_Discard(slf) ==
    [slf EXCEPT !.y = << >>, !.scale = << >>, !.unit_scale = << >>, !.on = "none"]

\* backward_cpu and backward_gpu assign no attribute of self
BackwardSelf(slf) == slf

Raise == [status |-> "raise", value |-> << >>]
Return(t) == [status |-> "ok", value |-> <<t>>]

\* backward_cpu(self, x, gy): the outcome of the call.
\* self.y is read first: without it the call raises AttributeError.  With a
\* GPUArray in self.y and numpy arguments the product of line 54 raises.
\* Otherwise every operand pair must broadcast, or numpy raises ValueError.
BackwardCpuResult(slf, xin, gy) ==
    IF slf.y = << >> \/ slf.on # "cpu" THEN Raise
    ELSE
    LET yy == slf.y[1]
        us == slf.unit_scale[1]
        sc == slf.scale[1]
        s1 == BShape(yy.shape, gy.shape)
        s2 == BShape(s1, us.shape)
        s3 == BShape(gy.shape, sc.shape)
        s4 == BShape(xin.shape, s2)
    IN  IF ~ /\ Compatible(yy.shape, gy.shape) /\ Compatible(s1, us.shape)
             /\ Compatible(gy.shape, sc.shape) /\ Compatible(xin.shape, s2)
             /\ Compatible(s3, s4)
        THEN Raise
        ELSE
        LET summand == NpDiv(NpMul(yy, gy), us)
            sp      == HostConvSum(summand, slf.n)
            coeffx  == ScalarTimes(2 * slf.alpha * slf.beta, xin)
        IN  Return(NpSub(NpMul(gy, sc), NpMul(coeffx, sp)))

\* backward_gpu reads element i of scale, y and gy for every i of x: when one
\* of them is shorter than x the kernels load past its end
GpuOverrun(slf, xin, gy) ==
    \/ Size(slf.scale[1]) < Size(xin)
    \/ Size(slf.y[1]) < Size(xin)
    \/ Size(gy) < Size(xin)

\* backward_gpu(self, x, gy): the outcome of the call when the kernels run to
\* completion; g is what a load past the end of a buffer returns.
\* self.scale is read first: without it the call raises AttributeError.  With
\* numpy arrays in self.scale and self.y the kernel launch raises.
BackwardGpuResult(slf, xin, gy, g) ==
    IF slf.scale = << >> \/ slf.on # "gpu" THEN Raise
    ELSE
    LET sc  == slf.scale[1].data
        yy  == slf.y[1].data
        \* lrn_bwd_summand: summand[i] = y[i] * gy[i] / scale[i]
        summand == Tensor(xin.shape, [q \in Idx(xin) |->
                      RDiv(RMul(Load(yy, q, R(g)), Load(gy.data, q, R(g))),
                           Load(sc, q, R(g)))])
        gx0 == CuConvSum(EmptyLike(xin), summand, slf.n)
        \* lrn_bwd: gx[i] = __powf(scale[i], -beta) * gy[i] - coeff * x[i] * gx[i]
        gx  == [q \in Idx(xin) |->
                  RSub(RMul(RPowNeg(Load(sc, q, R(g)), slf.beta), Load(gy.data, q, R(g))),
                       RMul(RMul(R(2 * slf.alpha * slf.beta), xin.data[q]), gx0[q]))]
    IN  Return(Tensor(xin.shape, gx))

\* the record of a call: of a call that returned, its arguments and value
Call(op, xin, gy, r) ==
    IF r.status = "ok"
    THEN [op |-> op, x |-> xin, gy |-> gy, status |-> "ok", value |-> r.value]
    ELSE [op |-> op, x |-> << >>, gy |-> << >>, status |-> r.status, value |-> << >>]

Saturate(c) == IF c >= 2 THEN 2 ELSE c

InitOp ==
    /\ \E p \in ParamChoices : self = NewInstance(p)
    /\ result = [op |-> "none", x |-> << >>, gy |-> << >>,
                 status |-> "ok", value |-> << >>]
    /\ lastX = << >>
    /\ nbwd = 0
    /\ x = UnitTensor(<<1, 1, 1>>, 0) /\ n = 1 /\ sum_part = x /\ hi = 1
    /\ y = << >> /\ lanes = << >> /\ written = << >>

Forward(op, slf2, xin) ==
    /\ self' = slf2
    /\ result' = Call(op, <<xin>>, << >>, [status |-> "ok", value |-> slf2.y])
    /\ lastX' = <<xin>>
    /\ nbwd' = 0
    /\ UNCHANGED sumVars

ForwardCpu ==
    \E xin \in OpInputs : Forward("forward_cpu", ForwardCpuState(self, xin), xin)

ForwardGpu ==
    \E xin \in OpInputs : Forward("forward_gpu", ForwardGpuState(self, xin), xin)

Backward(op, r, xin, gy) ==
    /\ self' = BackwardSelf(self)
    /\ result' = Call(op, <<xin>>, <<gy>>, r)
    /\ nbwd' = IF r.status = "ok" THEN Saturate(nbwd + 1) ELSE nbwd
    /\ UNCHANGED lastX
    /\ UNCHANGED sumVars

BackwardCpu ==
    \E a \in BackwardArgs :
        Backward("backward_cpu", BackwardCpuResult(self, a[1], a[2]), a[1], a[2])

\* A launch that loads past the end of a buffer is undefined: it may fault,
\* or complete on whatever the stray loads returned.
BackwardGpu ==
    \E a \in BackwardArgs :
        LET overrun == self.scale # << >> /\ self.on = "gpu" /\ GpuOverrun(self, a[1], a[2])
            outcomes == IF overrun
                        THEN { BackwardGpuResult(self, a[1], a[2], g) : g \in Garbage }
                               \cup {Raise}
                        ELSE { BackwardGpuResult(self, a[1], a[2], 0) }
        IN  \E o \in outcomes : Backward("backward_gpu", o, a[1], a[2])

NextOp == ForwardCpu \/ ForwardGpu \/ BackwardCpu \/ BackwardGpu

SpecOp == InitOp /\ [][NextOp]_vars

\* the flat indices of the column of lane i: batch i / rdim, spatial i % rdim
Column(t, i) ==
    { q \in Idx(t) : BOf(t.shape, q) = i \div RdimOf(t) /\ SOf(t.shape, q) = i % RdimOf(t) }

\* what lane i will load and store in its next iteration
NextAccess(i) ==
    LET r == LaneBody(y, x.data, RdimOf(x), Chan(x), n, i, lanes[i].j,
                      lanes[i].sum_part, R(0))
    IN  r.reads \cup r.writes

\* C1: when the host loop over i = 1..half has finished, sum_part[b, c, s] is
\* the sum of x[b, j, s] for j = max(0, c - half) .. min(N - 1, c + half):
\* the window is truncated at the channel boundaries, never wrapped.
C1_HostWindowedSum == HostDone => sum_part = WindowSum(x, n)
\* the loop ran with half >= 1 on at least two channels, one case with
\* half >= N, and the boundary example N = 4, n = 5
C1_Witness ==
    /\ HostDone /\ Chan(x) = 4 /\ n = 5 /\ x = RampTensor(x.shape)
    /\ sum_part.data[0] = R(1 + 2 + 3) /\ sum_part.data[3] = R(2 + 3 + 4)

\* C2: when a lane has finished its pass j = 0 .. N + half - 1, its column of
\* y holds the windowed sum over max(0, c - half) .. min(N - 1, c + half),
\* for odd and for even n.
C2_DeviceWindowedSum ==
    \A i \in DOMAIN lanes :
        LaneDone(i) => \A q \in Column(x, i) : y[q] = WindowSum(x, n).data[q]

\* C3: for odd n, when the host loop and every lane of the launch have
\* finished, the device buffer equals the host result at every flat index.
C3_HostDeviceAgree ==
    (HostDone /\ KernelDone /\ n % 2 = 1) => y = sum_part.data
C3_Witness ==
    /\ HostDone /\ KernelDone /\ n = 3
    /\ x = RampTensor(<<2, 2, 2>>)
    /\ y = sum_part.data /\ sum_part # x

\* C8: no element of y is ever stored to twice; when the launch has finished
\* every element has been stored to exactly once, and y is what running the
\* lanes one after the other gives, whatever the interleaving was.
C8_LaneIndependence ==
    /\ \A q \in Idx(x) : Len(written[q]) <= 1
    /\ KernelDone =>
         /\ \A q \in Idx(x) : Len(written[q]) = 1
         /\ y = CuConvSum([q \in Idx(x) |-> R(0)], x, n)
\* a finished launch of four lanes (batch 2, rdim 2) over two channels
C8_Witness ==
    /\ KernelDone /\ Cardinality(DOMAIN lanes) = 4 /\ Chan(x) = 2
    /\ \A q \in Idx(x) : Len(written[q]) = 1
    /\ y # x.data

\* C10: every flat index a lane loads or stores in any iteration lies in the
\* buffer and in the lane's own (batch, spatial) column.
C10_KernelMemorySafe ==
    \A i \in DOMAIN lanes : ~LaneDone(i) => NextAccess(i) \subseteq Column(x, i)
\* a lane in its last iteration, past the window (j >= n_) and past the
\* input (j >= N), of a launch with batch, rdim >= 2
C10_Witness ==
    \E i \in DOMAIN lanes :
        /\ lanes[i].j = LaneTripCount(Chan(x), n) - 1
        /\ lanes[i].j >= n /\ lanes[i].j >= Chan(x)
        /\ Batch(x) = 2 /\ RdimOf(x) = 2 /\ i = 3
        /\ NextAccess(i) # {}

\* ------------------------------------------------------------- operator claims
IsBackward(r) == r.op \in {"backward_cpu", "backward_gpu"}
\* the last call was a backward that returned a gradient
Returned == IsBackward(result) /\ result.status = "ok"
NoCache(slf) == slf.y = << >> /\ slf.scale = << >> /\ slf.unit_scale = << >>

\* the instance a single forward of the last forward's input, on the last
\* forward's path, leaves behind when it starts from a new instance
Fresh ==
    IF self.on = "cpu" THEN ForwardCpuState(NewInstance(self), lastX[1])
    ELSE ForwardGpuState(NewInstance(self), lastX[1])

\* the gradients backward can return for the recorded arguments from cache c
GradientsFrom(c) ==
    IF result.op = "backward_cpu"
    THEN { BackwardCpuResult(c, result.x[1], result.gy[1]).value }
    ELSE { BackwardGpuResult(c, result.x[1], result.gy[1], g).value : g \in Garbage }

C5_BackwardBeforeForward ==
    lastX = << >> =>
        /\ NoCache(self)
        /\ IsBackward(result) => result.status = "raise" /\ result.value = << >>
C5_Witness ==
    /\ lastX = << >> /\ result.op = "backward_gpu" /\ result.status = "raise"
    /\ NoCache(self)

\* C6: a backward whose x or gy differs in shape from the cached y and scale
\* returns no gradient.
C6_ShapeMismatchFails ==
    (Returned /\ lastX # << >>) =>
        /\ result.x[1].shape = self.y[1].shape
        /\ result.gy[1].shape = self.y[1].shape

\* C7 as stated: once backward has returned, the instance no longer holds the
\* cached y and scale.
C7_CacheDiscarded == Returned => self.y = << >> /\ self.scale = << >>
\* C7 as amended: backward leaves the cached attributes in place: after one or
\* more backward calls they are still those of the last forward, and a second
\* backward without a forward in between computes its gradient from them.
C7_CachePersists ==
    nbwd >= 1 =>
        /\ self.y # << >> /\ self.scale # << >>
        /\ <<self.y, self.scale>> = <<Fresh.y, Fresh.scale>>
        /\ (Returned /\ nbwd = 2) => result.value \in GradientsFrom(self)
C7_Witness == Returned /\ nbwd = 2 /\ Chan(lastX[1]) = 2

\* the reference values: the normalizer k + alpha * (windowed sum of x * x)
SquareOf(t) == Tensor(t.shape, [q \in Idx(t) |-> RMul(t.data[q], t.data[q])])
NormalizerOf(ws) ==
    Tensor(ws.shape, [q \in Idx(ws) |-> RAdd(R(self.k), RMul(R(self.alpha), ws.data[q]))])
\* the window the kernel sums: the n channels that end at c + half
KernelWindowSum(t, n_) ==
    LET sh == t.shape
        half == n_ \div 2
    IN  Tensor(sh, [q \in Idx(t) |->
            SumChannels(t, BOf(sh, q), SOf(sh, q),
                        Max(0, COf(sh, q) + half - n_ + 1),
                        Min(sh[2] - 1, COf(sh, q) + half))])
TimesPowNeg(t, u) ==
    Tensor(t.shape, [q \in Idx(t) |-> RMul(t.data[q], RPowNeg(u.data[q], self.beta))])

\* the gradient of the formula, for x and gy of the shape of the forward
\* input x0:  gy * nz ** -beta - 2 * alpha * beta * x * W(y * gy / nz)  with
\* nz the normalizer of x0, y = x0 * nz ** -beta and W the path's windowed sum
GradientRef(x0, xin, gy) ==
    LET sq == SquareOf(x0)
        nz == NormalizerOf(IF self.on = "cpu" THEN WindowSum(sq, self.n)
                           ELSE KernelWindowSum(sq, self.n))
        yy == TimesPowNeg(x0, nz)
        summand == Tensor(x0.shape, [q \in Idx(x0) |->
                       RDiv(RMul(yy.data[q], gy.data[q]), nz.data[q])])
        w  == IF self.on = "cpu" THEN WindowSum(summand, self.n)
              ELSE KernelWindowSum(summand, self.n)
    IN  Tensor(x0.shape, [q \in Idx(x0) |->
            RSub(RMul(gy.data[q], RPowNeg(nz.data[q], self.beta)),
                 RMul(RMul(R(2 * self.alpha * self.beta), xin.data[q]), w.data[q]))])

\* C9 as stated: after forward, on either path, the attribute scale is the
\* normalizer k + alpha * WindowedSum(x * x, n) and y is x * scale ** -beta.
C9_ScaleIsNormalizer ==
    lastX # << >> =>
        /\ self.scale[1] = NormalizerOf(WindowSum(SquareOf(lastX[1]), self.n))
        /\ self.y[1] = TimesPowNeg(lastX[1], self.scale[1])
\* C9 as amended: the normalizer is cached in scale on the device path and in
\* unit_scale on the host path, where scale is unit_scale ** -beta; y is
\* x * normalizer ** -beta on both, and the backward of the path computes the
\* gradient of the formula from them.  The sum in the normalizer is the one
\* the path computes: the host window c - half .. c + half, the kernel window
\* c + half - n + 1 .. c + half (the same window when n is odd).
C9_CachedNormalizer ==
    lastX # << >> =>
        /\ self.on = "cpu" =>
             LET nz == NormalizerOf(WindowSum(SquareOf(lastX[1]), self.n))
             IN  /\ self.unit_scale[1] = nz
                 /\ self.scale[1] = Tensor(nz.shape, [q \in Idx(nz) |-> RPowNeg(nz.data[q], self.beta)])
                 /\ self.y[1] = TimesPowNeg(lastX[1], nz)
        /\ self.on = "gpu" =>
             LET nz == NormalizerOf(KernelWindowSum(SquareOf(lastX[1]), self.n))
             IN  /\ self.scale[1] = nz
                 /\ self.y[1] = TimesPowNeg(lastX[1], nz)
        /\ (Returned /\ result.x[1].shape = lastX[1].shape
                     /\ result.gy[1].shape = lastX[1].shape) =>
             result.value[1] = GradientRef(lastX[1], result.x[1], result.gy[1])
\* a host forward over two channels with a window that spans both
C9_Witness ==
    /\ lastX # << >> /\ self.on = "cpu" /\ Chan(lastX[1]) = 2 /\ self.n = 3
    /\ self.scale # self.unit_scale
    /\ result.op = "forward_cpu"
=============================================================================
